---- MODULE Spec2Model ----
(***************************************************************************)
(* A model of the Minecraft class of minecraft-render: multi-source file   *)
(* lookup over a primary jar and the registered mod jars, the parsed-JSON  *)
(* cache, and the resolution of a block model's parent chain.              *)
(*                                                                         *)
(* JavaScript strings are sequences of tokens (<<"block", "/", "a">> is    *)
(* the string "block/a"); a token never contains ":" or "/" unless it is   *)
(* that character.  A JavaScript value is a tagged record, an object is    *)
(* the sequence of its own properties in property order.                   *)
(***************************************************************************)
EXTENDS Integers, Sequences, FiniteSets, TLC

VARIABLES
    jar,              \* this.jar: the primary archive
    defaultNamespace, \* this.defaultNamespace
    renderer,         \* this.renderer
    _modid_jars,      \* this._modid_jars: an object, modid -> archive
    _cache,           \* this._cache: an object, path -> parsed document
    held,             \* the documents callers got from getParsedJson and still hold
    regOrder,         \* history: the modids in the order of their first registration
    failed,           \* history: the lookups that found no file or no well-formed one
    gen,              \* the generator render() made: its position and what it did
    tasks,            \* the pending calls of getParsedJson, suspended or settled
    ret               \* the last call: its name, its arguments and its outcome

vars == <<jar, defaultNamespace, renderer, _modid_jars, _cache, held, regOrder,
          failed, gen, tasks, ret>>

(***************************************************************************)
(* Bounds of the model.                                                    *)
(***************************************************************************)
MaxMods == 2
MaxHeld == 2
MaxBlocks == 2
MaxTasks == 2

(***************************************************************************)
(* JavaScript values.                                                      *)
(***************************************************************************)
Str(s) == [t |-> "str", v |-> s]
Obj(props) == [t |-> "obj", v |-> props]
Arr(elems) == [t |-> "arr", v |-> elems]
Buffer(bytes) == [t |-> "buffer", v |-> bytes]
Null == [t |-> "null", v |-> << >>]
Undefined == [t |-> "undefined", v |-> << >>]
Prop(k, x) == [k |-> k, v |-> x]
K(word) == <<word>>

\* ToBoolean: undefined, null and the empty string are falsy; every object
\* (a Buffer and an array included, also when empty) is truthy.
Truthy(x) ==
    CASE x.t = "undefined" -> FALSE
      [] x.t = "null" -> FALSE
      [] x.t = "str" -> x.v # << >>
      [] OTHER -> TRUE

Range(s) == {s[i] : i \in 1..Len(s)}

(***************************************************************************)
(* Property order of an ordinary object (OrdinaryOwnPropertyKeys): the     *)
(* keys that are array indices first, in ascending numeric order, then the *)
(* other string keys in the order of their creation.                       *)
(***************************************************************************)
Digits == {"0", "1", "2", "3", "4", "5", "6", "7", "8", "9"}

DigitVal(d) ==
    CASE d = "0" -> 0 [] d = "1" -> 1 [] d = "2" -> 2 [] d = "3" -> 3
      [] d = "4" -> 4 [] d = "5" -> 5 [] d = "6" -> 6 [] d = "7" -> 7
      [] d = "8" -> 8 [] d = "9" -> 9

\* A canonical numeric string (the model's keys have at most two characters,
\* far below the limit 2^32 - 2 of an array index).
IsArrayIndex(k) ==
    /\ Len(k) >= 1
    /\ \A i \in 1..Len(k) : k[i] \in Digits
    /\ (Len(k) = 1 \/ k[1] # "0")

RECURSIVE IndexValue(_)
IndexValue(k) ==
    IF k = << >> THEN 0
    ELSE 10 * IndexValue(SubSeq(k, 1, Len(k) - 1)) + DigitVal(k[Len(k)])

HasOwn(props, k) == \E i \in 1..Len(props) : props[i].k = k

Get(props, k) ==
    IF HasOwn(props, k)
    THEN props[CHOOSE i \in 1..Len(props) : props[i].k = k].v
    ELSE Undefined

\* The place at which a new property k is listed among props.
InsertAt(props, k) ==
    IF IsArrayIndex(k)
    THEN LET later == {i \in 1..Len(props) :
                          \/ ~IsArrayIndex(props[i].k)
                          \/ IndexValue(props[i].k) > IndexValue(k)}
         IN  IF later = {} THEN Len(props) + 1
             ELSE CHOOSE i \in later : \A j \in later : i <= j
    ELSE Len(props) + 1

\* obj[k] = x
Set(props, k, x) ==
    IF HasOwn(props, k)
    THEN [i \in 1..Len(props) |->
             IF props[i].k = k THEN Prop(k, x) ELSE props[i]]
    ELSE LET at == InsertAt(props, k)
         IN  SubSeq(props, 1, at - 1) \o <<Prop(k, x)>>
                 \o SubSeq(props, at, Len(props))

\* delete obj[k], and the rest pattern { k, ...rest }
Without(props, k) == SelectSeq(props, LAMBDA p : p.k # k)

(***************************************************************************)
(* Outcomes of a call: a returned value, a thrown error (a rejected        *)
(* promise), or a call that never settles.                                 *)
(***************************************************************************)
NoError == [name |-> "", message |-> << >>]
Error(name, message) == [name |-> name, message |-> message]
Return(x) == [kind |-> "return", val |-> x, err |-> NoError]
Throw(e) == [kind |-> "throw", val |-> Undefined, err |-> e]
Diverges == [kind |-> "diverge", val |-> Undefined, err |-> NoError]

(***************************************************************************)
(* JSON.stringify and JSON.parse, over a text of tokens: a string literal  *)
(* [q |-> TRUE, s |-> its content] or a punctuation token.                 *)
(***************************************************************************)
Lit(s) == [q |-> TRUE, s |-> s]
Punct(c) == [q |-> FALSE, s |-> <<c>>]

RECURSIVE JSONstringify(_)
RECURSIVE StringifyProps(_, _)
RECURSIVE StringifyElems(_, _)

\* The members of an object: a property whose value is undefined is skipped.
StringifyProps(props, first) ==
    IF props = << >> THEN << >>
    ELSE IF Head(props).v.t = "undefined" THEN StringifyProps(Tail(props), first)
    ELSE (IF first THEN << >> ELSE <<Punct(",")>>)
            \o <<Lit(Head(props).k), Punct(":")>>
            \o JSONstringify(Head(props).v)
            \o StringifyProps(Tail(props), FALSE)

\* The elements of an array: undefined is written null.
StringifyElems(elems, first) ==
    IF elems = << >> THEN << >>
    ELSE (IF first THEN << >> ELSE <<Punct(",")>>)
            \o (IF Head(elems).t = "undefined" THEN <<Punct("null")>>
                ELSE JSONstringify(Head(elems)))
            \o StringifyElems(Tail(elems), FALSE)

JSONstringify(x) ==
    CASE x.t = "str" -> <<Lit(x.v)>>
      [] x.t = "null" -> <<Punct("null")>>
      [] x.t = "obj" -> <<Punct("{")>> \o StringifyProps(x.v, TRUE) \o <<Punct("}")>>
      [] x.t = "arr" -> <<Punct("[")>> \o StringifyElems(x.v, TRUE) \o <<Punct("]")>>

ParseFail == [ok |-> FALSE, val |-> Undefined, rest |-> << >>]
Parsed(x, rest) == [ok |-> TRUE, val |-> x, rest |-> rest]

RECURSIVE ParseValue(_)
RECURSIVE ParseMembers(_, _)
RECURSIVE ParseElements(_, _)

\* string ":" value, then "," and more members, or "}".  A repeated key
\* keeps the place of its first occurrence and the value of its last.
ParseMembers(ts, acc) ==
    IF Len(ts) < 3 \/ ~ts[1].q \/ ts[2] # Punct(":") THEN ParseFail
    ELSE LET pv == ParseValue(SubSeq(ts, 3, Len(ts)))
         IN  IF ~pv.ok \/ pv.rest = << >> THEN ParseFail
             ELSE IF Head(pv.rest) = Punct("}")
                  THEN Parsed(Obj(Set(acc, ts[1].s, pv.val)), Tail(pv.rest))
             ELSE IF Head(pv.rest) = Punct(",")
                  THEN ParseMembers(Tail(pv.rest), Set(acc, ts[1].s, pv.val))
             ELSE ParseFail

ParseElements(ts, acc) ==
    LET pv == ParseValue(ts)
    IN  IF ~pv.ok \/ pv.rest = << >> THEN ParseFail
        ELSE IF Head(pv.rest) = Punct("]")
             THEN Parsed(Arr(Append(acc, pv.val)), Tail(pv.rest))
        ELSE IF Head(pv.rest) = Punct(",")
             THEN ParseElements(Tail(pv.rest), Append(acc, pv.val))
        ELSE ParseFail

ParseValue(ts) ==
    IF ts = << >> THEN ParseFail
    ELSE IF Head(ts).q THEN Parsed(Str(Head(ts).s), Tail(ts))
    ELSE IF Head(ts) = Punct("null") THEN Parsed(Null, Tail(ts))
    ELSE IF Head(ts) = Punct("{")
         THEN IF Len(ts) >= 2 /\ ts[2] = Punct("}")
              THEN Parsed(Obj(<< >>), SubSeq(ts, 3, Len(ts)))
              ELSE ParseMembers(Tail(ts), << >>)
    ELSE IF Head(ts) = Punct("[")
         THEN IF Len(ts) >= 2 /\ ts[2] = Punct("]")
              THEN Parsed(Arr(<< >>), SubSeq(ts, 3, Len(ts)))
              ELSE ParseElements(Tail(ts), << >>)
    ELSE ParseFail

SyntaxError == Error("SyntaxError", <<"Unexpected token in JSON">>)

JSONparse(text) ==
    LET p == ParseValue(text)
    IN  IF p.ok /\ p.rest = << >> THEN Return(p.val) ELSE Throw(SyntaxError)

(***************************************************************************)
(* Identifiers and paths.                                                  *)
(***************************************************************************)
includes(s, c) == c \in Range(s)

indexOf(s, c) ==
    IF includes(s, c)
    THEN CHOOSE i \in 1..Len(s) : s[i] = c /\ \A j \in 1..(i - 1) : s[j] # c
    ELSE 0 - 1

RECURSIVE split(_, _)
split(s, c) ==
    IF ~includes(s, c) THEN <<s>>
    ELSE <<SubSeq(s, 1, indexOf(s, c) - 1)>>
             \o split(SubSeq(s, indexOf(s, c) + 1, Len(s)), c)

\* Minecraft.id: const [namespace, id] = name.split(':')
id(name) ==
    IF includes(name, ":")
    THEN [namespace |-> split(name, ":")[1], id |-> split(name, ":")[2]]
    ELSE [namespace |-> <<"minecraft">>, id |-> name]

\* The path getModelFile builds for a model name.
ModelPath(name) ==
    LET parts == id(name)
        localId == IF indexOf(parts.id, "/") = 0 - 1
                   THEN <<"block", "/">> \o parts.id
                   ELSE parts.id
    IN  <<"assets", "/">> \o parts.namespace \o <<"/", "models", "/">>
            \o localId \o <<".json">>

\* The parent that getModel and getModelFromBlockState fall back to.
RootModel == <<"minecraft", ":", "block", "/", "block">>

(***************************************************************************)
(* The model names, the documents and the archives of the model.           *)
(***************************************************************************)
NameA == <<"minecraft", ":", "block", "/", "a">>
NameB == <<"b">>
NameC == <<"create", ":", "block", "/", "c">>

ModelNames == {NameA, NameB, NameC, RootModel}

\* The paths of their files: "assets/minecraft/models/block/a.json", ...
PathA == <<"assets", "/", "minecraft", "/", "models", "/", "block", "/", "a", ".json">>
PathB == <<"assets", "/", "minecraft", "/", "models", "/", "block", "/", "b", ".json">>
PathC == <<"assets", "/", "create", "/", "models", "/", "block", "/", "c", ".json">>
PathRoot == <<"assets", "/", "minecraft", "/", "models", "/", "block", "/", "block", ".json">>

Paths == {PathA, PathB, PathC, PathRoot}

DocA1 ==
    Obj(<<Prop(K("parent"), Str(NameB)),
          Prop(K("textures"), Obj(<<Prop(K("all"), Str(<<"a_all">>))>>)),
          Prop(K("ambientocclusion"), Str(<<"false">>)),
          Prop(K("elements"), Arr(<<Str(<<"cube_a">>)>>))>>)

DocA2 ==
    Obj(<<Prop(K("parent"), Str(NameB)),
          Prop(K("textures"), Str(<<"flat">>)),
          Prop(K("display"), Obj(<<Prop(K("head"), Str(<<"a_head">>))>>))>>)

DocB1 ==
    Obj(<<Prop(K("textures"), Obj(<<Prop(K("all"), Str(<<"b_all">>)),
                                    Prop(K("side"), Str(<<"b_side">>))>>)),
          Prop(K("parent"), Str(NameC)),
          Prop(K("gui_light"), Str(<<"front">>))>>)

DocB2 ==
    Obj(<<Prop(K("parent"), Str(NameC)),
          Prop(K("display"), Str(<<"hidden">>)),
          Prop(K("elements"), Obj(<<Prop(K("shape"), Str(<<"b_shape">>))>>))>>)

DocC1 ==
    Obj(<<Prop(K("display"), Obj(<<Prop(K("gui"), Str(<<"c_gui">>)),
                                   Prop(K("head"), Str(<<"c_head">>))>>)),
          Prop(K("textures"), Obj(<<Prop(K("particle"), Str(<<"c_particle">>)),
                                    Prop(K("side"), Str(<<"c_side">>))>>)),
          Prop(K("elements"), Arr(<<Str(<<"cube_c1">>), Str(<<"cube_c2">>)>>)),
          Prop(K("ambientocclusion"), Str(<<"true">>)),
          Prop(K("gui_light"), Str(<<"side">>))>>)

DocC2 ==
    Obj(<<Prop(K("textures"), Obj(<<Prop(K("particle"), Str(<<"c2_particle">>))>>)),
          Prop(K("display"), Obj(<<Prop(K("head"), Str(<<"c2_head">>))>>))>>)

DocRoot1 ==
    Obj(<<Prop(K("gui_light"), Str(<<"side">>)),
          Prop(K("display"), Obj(<<Prop(K("gui"), Str(<<"root_gui">>)),
                                   Prop(K("ground"), Str(<<"root_ground">>))>>))>>)

DocRoot2 ==
    Obj(<<Prop(K("gui_light"), Str(<<"side">>))>>)

\* Block state documents, their variants in the order in which the file
\* lists them.
Variant(name) == Obj(<<Prop(K("model"), Str(name))>>)

BlockState(variants) == Obj(<<Prop(K("variants"), Obj(variants))>>)

StateStone ==
    BlockState(<<Prop(K("fire=true"), Variant(NameA)),
                 Prop(<< >>, Variant(RootModel))>>)

StateLamp ==
    BlockState(<<Prop(K("lit=true"), Variant(NameA)),
                 Prop(K("0"), Variant(NameC))>>)

StateFurnace ==
    BlockState(<<Prop(K("facing=north"), Arr(<<Variant(NameB), Variant(NameA)>>)),
                 Prop(K("facing=south"), Variant(NameC))>>)

\* The sidecar document of an animated texture.
DocMeta ==
    Obj(<<Prop(K("animation"), Obj(<<Prop(K("frametime"), Str(<<"2">>))>>))>>)

\* The document a file content is the text of, by the content's name.
Doc(c) ==
    CASE c = "A1" -> DocA1
      [] c = "A2" -> DocA2
      [] c \in {"B1", "B1cut"} -> DocB1
      [] c = "B2" -> DocB2
      [] c = "C1" -> DocC1
      [] c = "C2" -> DocC2
      [] c = "Root1" -> DocRoot1
      [] c = "Root2" -> DocRoot2
      [] c = "null" -> Null
      [] c = "Stone" -> StateStone
      [] c = "Lamp" -> StateLamp
      [] c = "Furnace" -> StateFurnace
      [] c = "Meta" -> DocMeta

\* File contents that are no JSON text: a text cut short, and an empty file.
Truncated(text) == SubSeq(text, 1, Len(text) - 1)
EmptyFile == << >>

\* The bytes of a file content, decoded: buffer.toString('utf8').
Content(c) ==
    IF c = "empty" THEN EmptyFile
    ELSE IF c = "B1cut" THEN Truncated(JSONstringify(Doc(c)))
    ELSE JSONstringify(Doc(c))

\* The paths of the block state files, and of a file that is none.
PathStone == <<"assets", "/", "minecraft", "/", "blockstates", "/", "stone", ".json">>
PathLamp == <<"assets", "/", "minecraft", "/", "blockstates", "/", "lamp", ".json">>
PathFurnace == <<"assets", "/", "minecraft", "/", "blockstates", "/", "furnace", ".json">>
PathReadme == <<"assets", "/", "minecraft", "/", "blockstates", "/", "readme", ".txt">>

\* The paths of the textures and of their sidecar files.
PathTexStone == <<"assets", "/", "minecraft", "/", "textures", "/", "block", "/", "stone", ".png">>
PathTexGear == <<"assets", "/", "create", "/", "textures", "/", "block", "/", "gear", ".png">>
PathMetaStone == PathTexStone \o <<".mcmeta">>
PathMetaGear == PathTexGear \o <<".mcmeta">>

File(path, c) == [path |-> path, c |-> c]

\* The files an archive holds besides its model files, by the name of the
\* set and in the order of the archive's directory.
Files(more) ==
    CASE more = "blocks" -> <<File(PathStone, "Stone"), File(PathReadme, "empty"),
                              File(PathLamp, "Lamp"), File(PathFurnace, "Furnace")>>
      [] more = "lamp" -> <<File(PathLamp, "Lamp")>>
      [] more = "stone" -> <<File(PathFurnace, "Furnace"), File(PathStone, "Stone")>>
      [] more = "textures" -> <<File(PathTexStone, "Png"), File(PathMetaStone, "Meta"),
                                File(PathTexGear, "Png"), File(PathMetaGear, "Meta")>>
      [] more = "gear" -> <<File(PathTexGear, "Png"), File(PathMetaGear, "Meta")>>
      [] more = "badmeta" -> <<File(PathTexStone, "Png"), File(PathMetaStone, "B1cut"),
                               File(PathMetaGear, "empty")>>
      [] OTHER -> << >>

\* An archive: the content it holds at each path ("-": no such entry), and
\* what its read does for an entry it does not hold (it throws, or it yields
\* null).
Archive(a, b, c, root, missing) ==
    [a |-> a, b |-> b, c |-> c, root |-> root, missing |-> missing, more |-> "-"]

\* The archive with a set of further files.
WithFiles(archive, more) == [archive EXCEPT !.more = more]

\* The content of the file of files at path.
FileAt(files, path) ==
    IF \E i \in 1..Len(files) : files[i].path = path
    THEN files[CHOOSE i \in 1..Len(files) : files[i].path = path].c
    ELSE "-"

EntryOf(archive, path) ==
    CASE path = PathA -> archive.a
      [] path = PathB -> archive.b
      [] path = PathC -> archive.c
      [] path = PathRoot -> archive.root
      [] OTHER -> FileAt(Files(archive.more), path)

FilePrimaries ==
    { Archive("A1", "B1", "-", "Root1", "throw"),
      Archive("A2", "-", "-", "-", "null"),
      Archive("empty", "-", "C1", "-", "throw"),
      Archive("-", "-", "-", "-", "null") }

ModCreate == Archive("A2", "-", "C1", "-", "throw")
ModOther == Archive("-", "B2", "C2", "Root1", "null")
ModBroken == Archive("empty", "B1cut", "-", "-", "throw")

AuxArchives == {ModCreate, ModOther, ModBroken}

ModIds == {<<"create">>, <<"2">>, <<"1", "0">>}

(***************************************************************************)
(* The archive collaborator: jar.read(path).                               *)
(***************************************************************************)
EntryNotFound == Error("Error", <<"Entry not found">>)

\* The outcome of reading an entry e of an archive: a Buffer of its content.
ReadEntry(e, missing) ==
    IF e # "-" THEN Return(Buffer(e))
    ELSE IF missing = "throw" THEN Throw(EntryNotFound)
    ELSE Return(Null)

Read(archive, path) == ReadEntry(EntryOf(archive, path), archive.missing)

(***************************************************************************)
(* Minecraft.registerModId and Minecraft.getFile.                          *)
(***************************************************************************)
\* this._modid_jars[modid] = jar
registerModIdJars(mods, modid, archive) == Set(mods, modid, archive)

\* A mutation of getFileFromMods: a mod jar whose read throws ends the lookup.
RECURSIVE getFileFromModsNoContinue(_, _, _)
getFileFromModsNoContinue(mods, i, path) ==
    IF i > Len(mods) THEN Return(Null)
    ELSE IF Read(mods[i].v, path).kind = "throw" THEN Return(Null)
    ELSE IF Truthy(Read(mods[i].v, path).val) THEN Read(mods[i].v, path)
    ELSE getFileFromModsNoContinue(mods, i + 1, path)

\* The for-in loop of getFile over the mod jars, from the i-th property on:
\* a read that throws (its val is undefined) or yields a falsy result goes on
\* to the next jar.
RECURSIVE getFileFromMods(_, _, _)
getFileFromMods(mods, i, path) ==
    IF i > Len(mods) THEN Return(Null)
    ELSE IF Truthy(Read(mods[i].v, path).val) THEN Read(mods[i].v, path)
    ELSE getFileFromMods(mods, i + 1, path)

\* A mutation of getFile: the mod jars are tried before the primary.
getFileModsFirst(path) ==
    IF Truthy(getFileFromMods(_modid_jars, 1, path).val)
    THEN getFileFromMods(_modid_jars, 1, path)
    ELSE IF Truthy(Read(jar, path).val) THEN Read(jar, path)
    ELSE Return(Null)

\* try { result = await this.jar.read(path) } catch { }: a read that throws
\* leaves result undefined, which is the val of a thrown outcome.
getFile(path) ==
    IF Truthy(Read(jar, path).val) THEN Read(jar, path)
    ELSE getFileFromMods(_modid_jars, 1, path)

(***************************************************************************)
(* The calls, as actions.                                                  *)
(***************************************************************************)
JarRef(archive) == [t |-> "jar", v |-> archive]
Call(op, arg, out) == [op |-> op, arg |-> arg, out |-> out]

\* No generator yet, and a call of getParsedJson that was not made yet.
NoGenerator ==
    [pc |-> "none", blocks |-> << >>, i |-> 0, completion |-> "normal", log |-> << >>]

NoTask ==
    [pc |-> "idle", path |-> << >>, missed |-> FALSE,
     res |-> [out |-> Return(Undefined), cell |-> << >>]]

\* The fields of a new instance, but for the archive and the namespace.
InitFields ==
    /\ renderer = Undefined
    /\ _modid_jars = << >>
    /\ _cache = << >>
    /\ held = << >>
    /\ regOrder = << >>
    /\ failed = {}
    /\ gen = NoGenerator
    /\ tasks = [t \in 1..MaxTasks |-> NoTask]
    /\ ret = Call("open", << >>, Return(Undefined))

\* Minecraft.open(file): the default namespace is 'minecraft'.
InitCommon ==
    /\ defaultNamespace = <<"minecraft">>
    /\ InitFields

RegisterModId(modid, archive) ==
    /\ HasOwn(_modid_jars, modid) \/ Len(_modid_jars) < MaxMods
    /\ _modid_jars' = registerModIdJars(_modid_jars, modid, archive)
    /\ regOrder' = IF modid \in Range(regOrder) THEN regOrder
                   ELSE Append(regOrder, modid)
    /\ ret' = Call("registerModId", modid, Return(JarRef(archive)))
    /\ UNCHANGED <<jar, defaultNamespace, renderer, _cache, held, failed, gen,
                   tasks>>

GetFile(path) ==
    /\ ret' = Call("getFile", path, getFile(path))
    /\ UNCHANGED <<jar, defaultNamespace, renderer, _modid_jars, _cache, held,
                   regOrder, failed, gen, tasks>>

(***************************************************************************)
(* The source set: a primary archive, registrations and lookups.           *)
(***************************************************************************)
Init ==
    /\ jar \in FilePrimaries
    /\ InitCommon

Next ==
    \/ \E modid \in ModIds, archive \in AuxArchives : RegisterModId(modid, archive)
    \/ \E path \in Paths : GetFile(path)

Spec == Init /\ [][Next]_vars

(***************************************************************************)
(* Minecraft.parseJson, Minecraft.clone and Minecraft.getParsedJson.       *)
(*                                                                         *)
(* An object a caller holds is either the cache's own object for a path    *)
(* (cell = that path) or an object of its own (cell = NoCell).             *)
(***************************************************************************)
NoCell == << >>

parseJson(data) ==
    IF data.t = "buffer" THEN JSONparse(Content(data.v))
    ELSE IF data.t \in {"obj", "arr", "null"} THEN JSONparse(JSONstringify(data))
    ELSE IF data.t = "str" THEN JSONparse(data.v)
    ELSE Return(Null)

\* A mutation of clone: the input itself is handed out.
cloneShared(cell, input) == [out |-> Return(input), cell |-> cell]

\* JSON.parse(JSON.stringify(input)): a new object.
clone(cell, input) == [out |-> JSONparse(JSONstringify(input)), cell |-> NoCell]

\* The result of a call that hands out no object.
Plain(out) == [out |-> out, cell |-> NoCell]

\* The second half of getParsedJson: if (this._cache[path]) return clone(...)
getParsedJsonResult(path, cache) ==
    IF Truthy(Get(cache, path))
    THEN [cache |-> cache, res |-> clone(path, Get(cache, path))]
    ELSE [cache |-> cache, res |-> Plain(Return(Undefined))]

\* A mutation of getParsedJsonStore: a parse failure is swallowed and
\* remembered as null.
getParsedJsonStoreSwallows(path, cache, parsed) ==
    IF parsed.kind = "throw" THEN getParsedJsonResult(path, Set(cache, path, Null))
    ELSE getParsedJsonResult(path, Set(cache, path, parsed.val))

\* A mutation of getParsedJsonStore: a document that another call stored in
\* the meantime is kept, and the call, having stored nothing, returns
\* nothing.
getParsedJsonStoreOnce(path, cache, parsed) ==
    IF parsed.kind = "throw" THEN [cache |-> cache, res |-> Plain(parsed)]
    ELSE IF HasOwn(cache, path) THEN [cache |-> cache, res |-> Plain(Return(Undefined))]
    ELSE getParsedJsonResult(path, Set(cache, path, parsed.val))

\* this._cache[path] = this.parseJson(data), parseJson having settled as
\* parsed: an exception leaves the cache as it is and ends the call.
getParsedJsonStore(path, cache, parsed) ==
    IF parsed.kind = "throw" THEN [cache |-> cache, res |-> Plain(parsed)]
    ELSE getParsedJsonResult(path, Set(cache, path, parsed.val))

\* A mutation of getParsedJsonMiss: an absent file is remembered as absent.
getParsedJsonMissCached(path, cache, data) ==
    IF HasOwn(cache, path) THEN getParsedJsonResult(path, cache)
    ELSE IF Truthy(data) THEN getParsedJsonStore(path, cache, parseJson(data))
    ELSE getParsedJsonResult(path, Set(cache, path, Null))

\* if (data) { this._cache[path] = this.parseJson(data) }
getParsedJsonMiss(path, cache, data) ==
    IF Truthy(data) THEN getParsedJsonStore(path, cache, parseJson(data))
    ELSE getParsedJsonResult(path, cache)

\* if (!this._cache[path]) { let data = await this.getFile(path); ... }
getParsedJson(path, cache) ==
    IF Truthy(Get(cache, path)) THEN getParsedJsonResult(path, cache)
    ELSE getParsedJsonMiss(path, cache, getFile(path).val)

\* What a caller does to a document it got: delete doc.parent, or
\* doc.parent = undefined (as getModelFromBlockState does).
Mutations == {"delete", "overwrite"}

Mutated(doc, m) ==
    IF m = "delete" THEN Obj(Without(doc.v, K("parent")))
    ELSE Obj(Set(doc.v, K("parent"), Undefined))

Held(path, cell, doc) == [path |-> path, cell |-> cell, val |-> doc]

\* The document a held reference leads to.
Deref(h) == IF h.cell = NoCell THEN h.val ELSE Get(_cache, h.cell)

Keep(h) ==
    IF Len(held) < MaxHeld THEN Append(held, h) ELSE Append(Tail(held), h)

\* The caller keeps the object a call handed out.
KeepResult(path, res) ==
    IF res.out.kind = "return" /\ res.out.val.t = "obj"
    THEN Keep(Held(path, res.cell,
                   IF res.cell = NoCell THEN res.out.val ELSE Undefined))
    ELSE held

\* What a lookup of path that settled with out adds to the history.
Failure(path, data, out) ==
    IF ~Truthy(data) THEN {<<path, "absent">>}
    ELSE IF out.kind = "throw" THEN {<<path, "malformed">>}
    ELSE {}

\* getParsedJson(path) settles with r: the cache after it and its result.
GetParsedJsonSettles(path, r) ==
    /\ _cache' = r.cache
    /\ held' = KeepResult(path, r.res)
    /\ failed' = IF Truthy(Get(_cache, path)) THEN failed
                 ELSE failed \cup Failure(path, getFile(path).val, r.res.out)
    /\ ret' = Call("getParsedJson", path, r.res.out)
    /\ UNCHANGED <<jar, defaultNamespace, renderer, _modid_jars, regOrder,
                   gen, tasks>>

GetParsedJson(path) == GetParsedJsonSettles(path, getParsedJson(path, _cache))

MutateHeld(i, m) ==
    /\ i \in 1..Len(held)
    /\ IF held[i].cell = NoCell
       THEN /\ held' = [held EXCEPT ![i].val = Mutated(held[i].val, m)]
            /\ _cache' = _cache
       ELSE /\ _cache' = Set(_cache, held[i].cell, Mutated(Get(_cache, held[i].cell), m))
            /\ held' = held
    /\ ret' = Call("mutate", held[i].path, Return(Undefined))
    /\ UNCHANGED <<jar, defaultNamespace, renderer, _modid_jars, regOrder,
                   failed, gen, tasks>>

(***************************************************************************)
(* The parsed-document cache: lookups of two paths, a mod jar registered   *)
(* before or after them, and callers that change what they got.            *)
(***************************************************************************)
CachePrimaries ==
    { Archive("-", "B1", "-", "-", "throw"),
      Archive("-", "B1cut", "C1", "-", "null"),
      Archive("-", "empty", "null", "-", "null"),
      Archive("-", "-", "-", "-", "throw") }

CachePaths == {PathB, PathC}

InitCache ==
    /\ jar \in CachePrimaries
    /\ InitCommon

NextCache ==
    \/ \E archive \in {ModOther, ModBroken} : RegisterModId(<<"create">>, archive)
    \/ \E path \in CachePaths : GetParsedJson(path)
    \/ \E i \in 1..MaxHeld, m \in Mutations : MutateHeld(i, m)

SpecCache == InitCache /\ [][NextCache]_vars

(***************************************************************************)
(* deepAssign, the assign-deep package: the own enumerable keys of the     *)
(* source are assigned to the target one by one; where the target's value  *)
(* and the source's value at a key are both plain objects they are merged, *)
(* in every other case the source's value takes the place.                 *)
(***************************************************************************)
isObject(x) == x.t = "obj"

\* if (isObject(target[key]) && isObject(source[key])) assign(target[key],
\* source[key]) else target[key] = source[key]; merged is what the recursive
\* call makes of the two.
assignKey(target, key, value, merged) ==
    IF isObject(Get(target, key)) /\ isObject(value)
    THEN Set(target, key, Obj(merged))
    ELSE Set(target, key, value)

\* The values at key, as property lists, when they are merged.
MembersAt(props, key) ==
    IF isObject(Get(props, key)) THEN Get(props, key).v ELSE << >>

MembersOf(x) == IF isObject(x) THEN x.v ELSE << >>

RECURSIVE assign(_, _)
assign(target, source) ==
    IF source = << >> THEN target
    ELSE assign(assignKey(target, Head(source).k, Head(source).v,
                          assign(MembersAt(target, Head(source).k),
                                 MembersOf(Head(source).v))),
                Tail(source))

\* deepAssign(target, first, second)
deepAssign(target, first, second) == assign(assign(target, first), second)

(***************************************************************************)
(* Minecraft.getModelFile, Minecraft.getModel and                          *)
(* Minecraft.getModelFromBlockState.                                       *)
(***************************************************************************)
\* value[k] of any value: a string or an array has none of the keys read here.
Member(x, k) == IF isObject(x) THEN Get(x.v, k) ELSE Undefined

\* What the engine throws on a property read of undefined or null.
TypeError == Error("TypeError", <<"Cannot read properties of undefined">>)

ModelResult(cache, out) == [cache |-> cache, out |-> out]

\* try { return this.getParsedJson(path) } catch (e) { throw new Error(...) }:
\* the promise is returned without await, so a rejection passes the catch by
\* and an absent file is the undefined that getParsedJson returns.
getModelFile(name, cache) == getParsedJson(ModelPath(name), cache)

\* A mutation of withFallback: nothing is put in the place of a missing parent.
noFallback(parent, model) == parent

\* if (!parent && (!model.display || !model.display.gui))
\*     parent = 'minecraft:block/block'
withFallback(parent, model) ==
    IF /\ ~Truthy(parent)
       /\ \/ ~Truthy(Get(model, K("display")))
          \/ ~Truthy(Member(Get(model, K("display")), K("gui")))
    THEN Str(RootModel)
    ELSE parent

\* A mutation of push: the parent is put in front.
unshift(parents, parent) == <<parent>> \o parents

\* model.parents.push(parent)
push(parents, parent) == Append(parents, parent)

\* The elements of model.parents, none when the model has no parents yet.
MembersOfArray(model) ==
    IF Truthy(Get(model, K("parents"))) THEN Get(model, K("parents")).v ELSE << >>

\* if (!model.parents) { model.parents = [] }; model.parents.push(parent)
pushParent(model, parent) ==
    Set(model, K("parents"), Arr(push(MembersOfArray(model), parent)))

\* deepAssign(model, { blockName })
withBlockName(model, blockName) ==
    assign(model, <<Prop(K("blockName"), Str(blockName))>>)

\* A mutation of getModelMerge: the parent's fields are laid over the model's.
getModelMergeSwapped(blockName, parent, model, up) ==
    IF up.out.kind # "return" THEN up
    ELSE ModelResult(up.cache,
             Return(Obj(withBlockName(
                 pushParent(deepAssign(<< >>, model, up.out.val.v), parent),
                 blockName))))

\* model = deepAssign({}, await this.getModel(parent), model), the parents,
\* and the return; up is the outcome of getModel(parent).
getModelMerge(blockName, parent, model, up) ==
    IF up.out.kind # "return" THEN up
    ELSE ModelResult(up.cache,
             Return(Obj(withBlockName(
                 pushParent(deepAssign(<< >>, up.out.val.v, model), parent),
                 blockName))))

RECURSIVE getModel(_, _, _)

\* if (parent) { ... } return deepAssign(model, { blockName })
getModelResolve(blockName, stack, cache, parent, model) ==
    IF Truthy(parent)
    THEN getModelMerge(blockName, parent, model,
                       getModel(parent.v, cache, Append(stack, blockName)))
    ELSE ModelResult(cache, Return(Obj(withBlockName(model, blockName))))

\* let { parent, ...model } = await this.getModelFile(blockName)
getModelDestructure(blockName, stack, file) ==
    IF file.res.out.kind = "throw" THEN ModelResult(file.cache, file.res.out)
    ELSE IF ~isObject(file.res.out.val) THEN ModelResult(file.cache, Throw(TypeError))
    ELSE getModelResolve(blockName, stack, file.cache,
             withFallback(Get(file.res.out.val.v, K("parent")),
                          Without(file.res.out.val.v, K("parent"))),
             Without(file.res.out.val.v, K("parent")))

\* stack: the names whose getModel awaits this one.  The sources and the
\* cached documents do not change under a call, so a name that is asked for
\* again while it is awaited is asked for again forever.
getModel(blockName, cache, stack) ==
    IF blockName \in Range(stack) THEN ModelResult(cache, Diverges)
    ELSE getModelDestructure(blockName, stack, getModelFile(blockName, cache))

\* let default_variant = block_state.variants[''], or else the first variant
\* of the for-in loop
defaultVariant(variants) ==
    IF Truthy(Get(variants, << >>)) THEN Get(variants, << >>)
    ELSE IF variants = << >> THEN Undefined
    ELSE Head(variants).v

\* if (Array.isArray(default_variant)) default_variant = default_variant[0]
firstVariant(variant) ==
    IF variant.t = "arr"
    THEN IF variant.v = << >> THEN Undefined ELSE Head(variant.v)
    ELSE variant

\* if (!model_file) return; let parent = model_file.parent;
\* model_file.parent = undefined; and then as getModel goes on
getModelFromFile(blockName, file) ==
    IF file.res.out.kind = "throw" THEN ModelResult(file.cache, file.res.out)
    ELSE IF ~Truthy(file.res.out.val) THEN ModelResult(file.cache, Return(Undefined))
    ELSE getModelResolve(blockName, << >>, file.cache,
             withFallback(Get(file.res.out.val.v, K("parent")), file.res.out.val.v),
             Set(file.res.out.val.v, K("parent"), Undefined))

\* let blockName = default_variant.model
getModelOfVariant(variant, cache) ==
    IF ~isObject(variant) THEN ModelResult(cache, Throw(TypeError))
    ELSE getModelFromFile(Get(variant.v, K("model")).v,
                          getModelFile(Get(variant.v, K("model")).v, cache))

getModelFromBlockState(block_state, cache) ==
    getModelOfVariant(
        firstVariant(defaultVariant(Get(block_state.v, K("variants")).v)), cache)

\* A resolution settles with r: the cache after it and its outcome.
ModelSettles(op, arg, r) ==
    /\ _cache' = r.cache
    /\ ret' = Call(op, arg, r.out)
    /\ UNCHANGED <<jar, defaultNamespace, renderer, _modid_jars, held,
                   regOrder, failed, gen, tasks>>

GetModel(blockName) ==
    ModelSettles("getModel", blockName, getModel(blockName, _cache, << >>))

GetModelFromBlockState(block_state) ==
    ModelSettles("getModelFromBlockState", block_state,
                 getModelFromBlockState(block_state, _cache))

(***************************************************************************)
(* Model resolution: a primary archive of model files, a mod jar that is   *)
(* registered and replaced, and resolutions by name and by block state.    *)
(***************************************************************************)
BlockStates ==
    { BlockState(<<Prop(<< >>, Variant(NameC))>>),
      BlockState(<<Prop(K("facing=north"), Arr(<<Variant(NameA), Variant(NameB)>>)),
                   Prop(K("facing=south"), Variant(NameB))>>),
      BlockState(<<Prop(K("lit=true"), Variant(RootModel)),
                   Prop(<< >>, Null)>>) }

ModelPrimaries ==
    { Archive("A1", "B1", "C1", "Root1", "throw"),
      Archive("A2", "B2", "C1", "-", "null"),
      Archive("A2", "B1", "C2", "Root1", "null"),
      Archive("A1", "B2", "C2", "Root2", "throw"),
      Archive("A1", "B1", "-", "-", "null"),
      Archive("-", "B1cut", "C2", "-", "throw") }

ModelMods == {ModCreate, ModOther}

InitModel ==
    /\ jar \in ModelPrimaries
    /\ InitCommon

NextModel ==
    \/ \E archive \in ModelMods : RegisterModId(<<"create">>, archive)
    \/ \E blockName \in ModelNames : GetModel(blockName)
    \/ \E block_state \in BlockStates : GetModelFromBlockState(block_state)

SpecModel == InitModel /\ [][NextModel]_vars

(***************************************************************************)
(* The archive collaborator: jar.entries(path), the entries of a directory *)
(* in the order of the archive.  A ZipEntry is the object of its name.     *)
(***************************************************************************)
ZipEntry(name) == Obj(<<Prop(K("name"), Str(name))>>)

\* path lies in the directory dir.
InDirectory(path, dir) ==
    /\ Len(path) > Len(dir) + 1
    /\ SubSeq(path, 1, Len(dir)) = dir
    /\ path[Len(dir) + 1] = "/"

\* All the files of an archive.
AllFiles(archive) ==
    SelectSeq(<<File(PathA, archive.a), File(PathB, archive.b),
                File(PathC, archive.c), File(PathRoot, archive.root)>>,
              LAMBDA f : f.c # "-")
        \o Files(archive.more)

\* The outcome of listing: an archive that throws on a missing entry throws
\* on a directory it has nothing of, another one yields an empty list.
ListEntries(files, missing) ==
    IF files # << >> THEN Return(Arr([i \in 1..Len(files) |-> ZipEntry(files[i].path)]))
    ELSE IF missing = "throw" THEN Throw(EntryNotFound)
    ELSE Return(Arr(<< >>))

Entries(archive, dir) ==
    ListEntries(SelectSeq(AllFiles(archive), LAMBDA f : InDirectory(f.path, dir)),
                archive.missing)

(***************************************************************************)
(* Minecraft.getFileEntries.                                               *)
(***************************************************************************)
\* result && result.length, of the outcome of a listing (a listing that threw
\* has no result)
hasLength(listing) == listing.val.t = "arr" /\ listing.val.v # << >>

\* The for-in loop of getFileEntries over the mod jars, from the i-th
\* property on: a listing that throws or is empty goes on to the next jar.
RECURSIVE getFileEntriesFromMods(_, _, _)
getFileEntriesFromMods(mods, i, path) ==
    IF i > Len(mods) THEN Return(Arr(<< >>))
    ELSE IF hasLength(Entries(mods[i].v, path)) THEN Entries(mods[i].v, path)
    ELSE getFileEntriesFromMods(mods, i + 1, path)

getFileEntries(path) ==
    IF hasLength(Entries(jar, path)) THEN Entries(jar, path)
    ELSE getFileEntriesFromMods(_modid_jars, 1, path)

GetFileEntries(path) ==
    /\ ret' = Call("getFileEntries", path, getFileEntries(path))
    /\ UNCHANGED <<jar, defaultNamespace, renderer, _modid_jars, _cache, held,
                   regOrder, failed, gen, tasks>>

(***************************************************************************)
(* Minecraft.getBlockStates, Minecraft.getBlockState and                   *)
(* Minecraft.getModelOfIdentifier.                                         *)
(***************************************************************************)
\* `assets/${namespace}/blockstates`
BlockStatesPath(namespace) == <<"assets", "/">> \o namespace \o <<"/", "blockstates">>

endsWith(s, suffix) == s # << >> /\ s[Len(s)] = suffix

\* libpath.basename(name): what follows the last "/"
RECURSIVE basename(_)
basename(name) ==
    IF includes(name, "/")
    THEN basename(SubSeq(name, indexOf(name, "/") + 1, Len(name)))
    ELSE name

\* .slice(0, -5), of a name that ends with the five characters ".json"
sliceJson(name) == SubSeq(name, 1, Len(name) - 1)

\* state.identifier = namespace + ':' + filename
withIdentifier(state, namespace, name) ==
    Obj(Set(state.v, K("identifier"),
            Str(namespace \o <<":">> \o sliceJson(basename(name)))))

RECURSIVE getBlockStatesLoop(_, _, _, _)

\* let state = await this.getParsedJson(file.name); state.identifier = ...;
\* states.push(state); and the rest of the loop
getBlockStatesPush(namespace, files, states, parsed) ==
    IF parsed.res.out.kind = "throw" THEN ModelResult(parsed.cache, parsed.res.out)
    ELSE IF ~Truthy(parsed.res.out.val) THEN ModelResult(parsed.cache, Throw(TypeError))
    ELSE getBlockStatesLoop(namespace, Tail(files), parsed.cache,
             Append(states,
                    withIdentifier(parsed.res.out.val, namespace,
                                   Get(Head(files).v, K("name")).v)))

\* for (let file of files) { if (!file.name.endsWith('.json')) continue; ... }
getBlockStatesLoop(namespace, files, cache, states) ==
    IF files = << >> THEN ModelResult(cache, Return(Arr(states)))
    ELSE IF ~endsWith(Get(Head(files).v, K("name")).v, ".json")
         THEN getBlockStatesLoop(namespace, Tail(files), cache, states)
    ELSE getBlockStatesPush(namespace, files, states,
             getParsedJson(Get(Head(files).v, K("name")).v, cache))

getBlockStates(namespace, cache) ==
    getBlockStatesLoop(namespace, getFileEntries(BlockStatesPath(namespace)).val.v,
                       cache, << >>)

\* for (const state of blockstates) if (state.identifier == identifier)
\* return state
findState(states, identifier) ==
    IF \E i \in 1..Len(states) : Get(states[i].v, K("identifier")) = Str(identifier)
    THEN states[CHOOSE i \in 1..Len(states) :
                    /\ Get(states[i].v, K("identifier")) = Str(identifier)
                    /\ \A j \in 1..(i - 1) :
                           Get(states[j].v, K("identifier")) # Str(identifier)]
    ELSE Undefined

\* The rest of getBlockState, blockstates being the outcome of getBlockStates.
getBlockStateOf(identifier, blockstates) ==
    IF blockstates.out.kind # "return" THEN blockstates
    ELSE ModelResult(blockstates.cache,
                     Return(findState(blockstates.out.val.v, identifier)))

getBlockState(identifier, cache) ==
    getBlockStateOf(identifier, getBlockStates(defaultNamespace, cache))

\* if (state) return this.getModelFromBlockState(state)
getModelOfState(state) ==
    IF state.out.kind # "return" THEN state
    ELSE IF ~Truthy(state.out.val) THEN ModelResult(state.cache, Return(Undefined))
    ELSE getModelFromBlockState(state.out.val, state.cache)

getModelOfIdentifier(identifier, cache) ==
    getModelOfState(getBlockState(identifier, cache))

GetModelOfIdentifier(identifier) ==
    ModelSettles("getModelOfIdentifier", identifier,
                 getModelOfIdentifier(identifier, _cache))

(***************************************************************************)
(* Minecraft.getBlockList.  The calls of getModelFromBlockState run        *)
(* concurrently; the sources do not change under them and the cache only   *)
(* remembers what the sources hold, so their outcomes are those of the     *)
(* calls made one after the other.                                         *)
(***************************************************************************)
RECURSIVE getBlockListSettled(_, _, _)

\* A mutation of getBlockListPush: Promise.all, the first rejection rejects
\* the whole.
getBlockListPushAll(states, result, promise) ==
    IF promise.out.kind = "diverge" THEN ModelResult(promise.cache, Diverges)
    ELSE IF promise.out.kind = "throw" THEN ModelResult(promise.cache, promise.out)
    ELSE IF Truthy(promise.out.val)
         THEN getBlockListSettled(Tail(states), promise.cache,
                                  Append(result, promise.out.val))
    ELSE getBlockListSettled(Tail(states), promise.cache, result)

\* if (promise.status == 'fulfilled') if (promise.value)
\* result.push(promise.value); Promise.allSettled waits for every promise,
\* and for ever for one that never settles
getBlockListPush(states, result, promise) ==
    IF promise.out.kind = "diverge" THEN ModelResult(promise.cache, Diverges)
    ELSE IF promise.out.kind = "return" /\ Truthy(promise.out.val)
         THEN getBlockListSettled(Tail(states), promise.cache,
                                  Append(result, promise.out.val))
    ELSE getBlockListSettled(Tail(states), promise.cache, result)

\* for (state of states) promises.push(this.getModelFromBlockState(state));
\* promises = await Promise.allSettled(promises); for (promise of promises) ...
getBlockListSettled(states, cache, result) ==
    IF states = << >> THEN ModelResult(cache, Return(Arr(result)))
    ELSE getBlockListPush(states, result,
                          getModelFromBlockState(Head(states), cache))

\* states = await this.getBlockStates(namespace), and the rest
getBlockListOf(states) ==
    IF states.out.kind # "return" THEN states
    ELSE getBlockListSettled(states.out.val.v, states.cache, << >>)

getBlockList(namespace, cache) == getBlockListOf(getBlockStates(namespace, cache))

GetBlockList(namespace) ==
    ModelSettles("getBlockList", namespace, getBlockList(namespace, _cache))

(***************************************************************************)
(* Blocks: archives with block state files, mod jars under names that are  *)
(* numbers or not, listings and resolutions by identifier.                 *)
(***************************************************************************)
BlockPrimaries ==
    { WithFiles(Archive("A1", "B1", "C1", "Root1", "throw"), "blocks"),
      WithFiles(Archive("A1", "B1", "-", "Root1", "null"), "blocks"),
      WithFiles(Archive("-", "B2", "C2", "-", "throw"), "lamp"),
      Archive("-", "-", "-", "-", "throw") }

BlockMods == {WithFiles(ModOther, "lamp"), WithFiles(ModCreate, "stone")}

BlockModIds == {<<"create">>, <<"2">>}

Identifiers ==
    { <<"minecraft", ":", "stone">>, <<"minecraft", ":", "lamp">>,
      <<"minecraft", ":", "furnace">>, <<"minecraft", ":", "readme">> }

BlockNamespaces == {<<"minecraft">>, <<"create">>}

Directories == {BlockStatesPath(namespace) : namespace \in BlockNamespaces}

InitBlocks ==
    /\ jar \in BlockPrimaries
    /\ InitCommon

NextBlocks ==
    \/ \E modid \in BlockModIds, archive \in BlockMods : RegisterModId(modid, archive)
    \/ \E path \in Directories : GetFileEntries(path)
    \/ \E identifier \in Identifiers : GetModelOfIdentifier(identifier)
    \/ \E namespace \in BlockNamespaces : GetBlockList(namespace)

SpecBlocks == InitBlocks /\ [][NextBlocks]_vars

(***************************************************************************)
(* Minecraft.getTextureFile and Minecraft.getTextureMetadata.              *)
(***************************************************************************)
\* `assets/${namespace}/textures/${id}.png`
TexturePath(name) ==
    <<"assets", "/">> \o id(name).namespace \o <<"/", "textures", "/">>
        \o id(name).id \o <<".png">>

\* `assets/${namespace}/textures/${name}.png.mcmeta`
MetadataPath(name) ==
    <<"assets", "/">> \o id(name).namespace \o <<"/", "textures", "/">>
        \o name \o <<".png", ".mcmeta">>

TextureNotFound(path) == Error("Error", <<"Unable to find texture file: ">> \o path)

\* try { return await this.getFile(path) } catch (e) { throw new Error(...) },
\* file being the outcome of getFile
getTextureFileOf(path, file) ==
    IF file.kind = "throw" THEN Throw(TextureNotFound(path)) ELSE file

getTextureFile(name) == getTextureFileOf(TexturePath(name), getFile(TexturePath(name)))

\* A mutation of getTextureMetadataOf: the failure is passed on.
getTextureMetadataRaises(parsed) == ModelResult(parsed.cache, parsed.res.out)

\* try { return await this.getParsedJson(path) } catch (e) { return null },
\* parsed being the outcome of getParsedJson
getTextureMetadataOf(parsed) ==
    IF parsed.res.out.kind = "throw" THEN ModelResult(parsed.cache, Return(Null))
    ELSE ModelResult(parsed.cache, parsed.res.out)

getTextureMetadata(name, cache) ==
    getTextureMetadataOf(getParsedJson(MetadataPath(name), cache))

GetTextureFile(name) ==
    /\ ret' = Call("getTextureFile", name, getTextureFile(name))
    /\ UNCHANGED <<jar, defaultNamespace, renderer, _modid_jars, _cache, held,
                   regOrder, failed, gen, tasks>>

GetTextureMetadata(name) ==
    ModelSettles("getTextureMetadata", name, getTextureMetadata(name, _cache))

(***************************************************************************)
(* Textures: an instance opened with a default namespace, archives with    *)
(* textures and sidecar files, and lookups by names with and without a     *)
(* namespace.                                                              *)
(***************************************************************************)
Namespaces == {<<"minecraft">>, <<"create">>}

TextureNames ==
    { <<"block", "/", "stone">>, <<"minecraft", ":", "block", "/", "stone">>,
      <<"block", "/", "gear">>, <<"create", ":", "block", "/", "gear">> }

TexturePrimaries ==
    { WithFiles(Archive("-", "-", "-", "-", "throw"), "textures"),
      WithFiles(Archive("-", "-", "-", "-", "null"), "badmeta"),
      Archive("-", "-", "-", "-", "throw"),
      Archive("-", "-", "-", "-", "null") }

TextureMods ==
    { WithFiles(ModCreate, "gear"), WithFiles(ModOther, "badmeta"),
      WithFiles(ModBroken, "textures") }

InitTextures ==
    /\ jar \in TexturePrimaries
    /\ defaultNamespace \in Namespaces
    /\ InitFields

NextTextures ==
    \/ \E archive \in TextureMods : RegisterModId(<<"create">>, archive)
    \/ \E name \in TextureNames : GetTextureFile(name)
    \/ \E name \in TextureNames : GetTextureMetadata(name)

SpecTextures == InitTextures /\ [][NextTextures]_vars

(***************************************************************************)
(* The renderer collaborator: prepareRenderer, render and destroyRenderer. *)
(***************************************************************************)
\* The handle prepareRenderer(options) resolves to.
RendererHandle == Obj(<<Prop(K("renderer"), Str(<<"handle">>))>>)

\* What render(minecraft, block) resolves to, and what it rejects with.
RenderedOutput(block) == Obj(<<Prop(K("blockName"), Str(block))>>)

RenderError == Error("RenderError", <<"render failed">>)

(***************************************************************************)
(* Minecraft.render, an async generator, and the two methods it calls.     *)
(* gen.pc is where the generator stands: "start" (made, its body not       *)
(* begun), "prepare", "render" and "cleanup" (suspended at an await),      *)
(* "yield" (suspended at the yield), "closed".  gen.log is what it called. *)
(***************************************************************************)
\* { value, done }
IteratorResult(value, done) == Obj(<<Prop(K("value"), value), Prop(K("done"), Str(<<done>>))>>)

\* The for loop: the next block is rendered, or the loop is left and the
\* finally block is entered.
forOf(g) ==
    IF g.i < Len(g.blocks) THEN [g EXCEPT !.pc = "render", !.i = g.i + 1]
    ELSE [g EXCEPT !.pc = "cleanup"]

\* The finally block is entered, completion being how the try block was
\* left.
finally(g, completion) == [g EXCEPT !.pc = "cleanup", !.completion = completion]

\* A mutation of yieldAwaitRender: no finally block, a failure of render
\* ends the generator.
yieldAwaitRenderNoFinally(g, ok) ==
    IF ok THEN [g EXCEPT !.pc = "yield", !.log = Append(g.log, "render")]
    ELSE [g EXCEPT !.pc = "closed", !.completion = "throw",
                   !.log = Append(g.log, "fail")]

\* yield await render(this, block), render having settled: its value is
\* yielded, its failure leaves the try block
yieldAwaitRender(g, ok) ==
    IF ok THEN [g EXCEPT !.pc = "yield", !.log = Append(g.log, "render")]
    ELSE finally([g EXCEPT !.log = Append(g.log, "fail")], "throw")

\* What the consumer's pending call settles with, when the generator
\* yields or is closed.
Settles(g) ==
    IF g.pc = "yield" THEN Return(IteratorResult(RenderedOutput(g.blocks[g.i]), "false"))
    ELSE IF g.completion = "throw" THEN Throw(RenderError)
    ELSE Return(IteratorResult(Undefined, "true"))

\* render(blocks): the generator is made, its body does not run yet.
Render(blocks) ==
    /\ gen.pc \in {"none", "closed"}
    /\ gen' = [pc |-> "start", blocks |-> blocks, i |-> 0, completion |-> "normal",
               log |-> << >>]
    /\ ret' = Call("render", blocks, Return(Undefined))
    /\ UNCHANGED <<jar, defaultNamespace, renderer, _modid_jars, _cache, held,
                   regOrder, failed, tasks>>

\* The consumer asks for the next value: the body runs to its next await.
GeneratorNext ==
    /\ gen.pc \in {"start", "yield"}
    /\ gen' = IF gen.pc = "start" THEN [gen EXCEPT !.pc = "prepare"] ELSE forOf(gen)
    /\ UNCHANGED <<jar, defaultNamespace, renderer, _modid_jars, _cache, held,
                   regOrder, failed, tasks, ret>>

\* The consumer leaves early (a break in for await): gen.return().  A
\* generator whose body has not begun is closed as it is; one suspended at
\* the yield enters its finally block.
GeneratorReturn ==
    /\ gen.pc \in {"start", "yield"}
    /\ gen' = IF gen.pc = "start" THEN [gen EXCEPT !.pc = "closed"]
              ELSE finally(gen, "return")
    /\ ret' = IF gen.pc = "start" THEN Call("return", gen.blocks, Settles(gen'))
              ELSE ret
    /\ UNCHANGED <<jar, defaultNamespace, renderer, _modid_jars, _cache, held,
                   regOrder, failed, tasks>>

\* prepareRenderEnvironment: this.renderer = await prepareRenderer(options),
\* and the loop begins.
PrepareRenderEnvironment ==
    /\ gen.pc = "prepare"
    /\ renderer' = RendererHandle
    /\ gen' = forOf([gen EXCEPT !.log = Append(gen.log, "prepare")])
    /\ UNCHANGED <<jar, defaultNamespace, _modid_jars, _cache, held, regOrder,
                   failed, tasks, ret>>

\* render(this, block) settles, ok or not.
RenderSettles(ok) ==
    /\ gen.pc = "render"
    /\ gen' = yieldAwaitRender(gen, ok)
    /\ ret' = IF gen'.pc = "cleanup" THEN ret
              ELSE Call("next", gen.blocks, Settles(gen'))
    /\ UNCHANGED <<jar, defaultNamespace, renderer, _modid_jars, _cache, held,
                   regOrder, failed, tasks>>

\* cleanupRenderEnvironment: await destroyRenderer(this.renderer!);
\* this.renderer = null, and the generator is closed the way its try block
\* was left.
CleanupRenderEnvironment ==
    /\ gen.pc = "cleanup"
    /\ renderer' = Null
    /\ gen' = [gen EXCEPT !.pc = "closed", !.log = Append(gen.log, "destroy")]
    /\ ret' = Call(IF gen.completion = "return" THEN "return" ELSE "next",
                   gen.blocks, Settles(gen'))
    /\ UNCHANGED <<jar, defaultNamespace, _modid_jars, _cache, held, regOrder,
                   failed, tasks>>

(***************************************************************************)
(* Rendering: runs of the generator over lists of blocks, by a consumer    *)
(* that goes on or leaves early, with renders that succeed or fail.        *)
(***************************************************************************)
RenderBlocks == {<<"stone">>, <<"lamp">>}

BlockLists == UNION {[1..n -> RenderBlocks] : n \in 0..MaxBlocks}

NextRender ==
    \/ \E blocks \in BlockLists : Render(blocks)
    \/ GeneratorNext
    \/ GeneratorReturn
    \/ PrepareRenderEnvironment
    \/ \E ok \in BOOLEAN : RenderSettles(ok)
    \/ CleanupRenderEnvironment

SpecRender == Init /\ [][NextRender]_vars

(***************************************************************************)
(* Minecraft.getParsedJson, call by call: a call that finds no remembered  *)
(* document is suspended at await this.getFile(path), and other calls run  *)
(* before it goes on.  What follows the await runs without suspension.     *)
(***************************************************************************)
Task(pc, path, missed, res) == [pc |-> pc, path |-> path, missed |-> missed, res |-> res]

\* if (!this._cache[path]) { let data = await this.getFile(path) ...: the
\* call is suspended; with a remembered document it settles at once.
getParsedJsonBegins(path, cache) ==
    IF Truthy(Get(cache, path))
    THEN Task("done", path, FALSE, getParsedJsonResult(path, cache).res)
    ELSE Task("getFile", path, TRUE, NoTask.res)

GetParsedJsonBegins(t, path) ==
    /\ tasks[t].pc \in {"idle", "done"}
    /\ tasks' = [tasks EXCEPT ![t] = getParsedJsonBegins(path, _cache)]
    /\ ret' = IF tasks'[t].pc = "done"
              THEN Call("getParsedJson", path, tasks'[t].res.out)
              ELSE ret
    /\ UNCHANGED <<jar, defaultNamespace, renderer, _modid_jars, _cache, held,
                   regOrder, failed, gen>>

\* The call t goes on after the await and settles with r.
GetParsedJsonGoesOn(t, r) ==
    /\ tasks[t].pc = "getFile"
    /\ _cache' = r.cache
    /\ tasks' = [tasks EXCEPT ![t] = Task("done", tasks[t].path, TRUE, r.res)]
    /\ ret' = Call("getParsedJson", tasks[t].path, r.res.out)
    /\ UNCHANGED <<jar, defaultNamespace, renderer, _modid_jars, held, regOrder,
                   failed, gen>>

GetParsedJsonResumes(t) ==
    GetParsedJsonGoesOn(t, getParsedJsonMiss(tasks[t].path, _cache,
                                             getFile(tasks[t].path).val))

(***************************************************************************)
(* Concurrent lookups: calls of getParsedJson for two paths that begin and *)
(* go on in any order, the sources being left as they are.                 *)
(***************************************************************************)
NextTasks ==
    \/ \E t \in 1..MaxTasks, path \in CachePaths : GetParsedJsonBegins(t, path)
    \/ \E t \in 1..MaxTasks : GetParsedJsonResumes(t)

SpecTasks == InitCache /\ [][NextTasks]_vars

(***************************************************************************)
(* Claims about the source set.                                            *)
(***************************************************************************)
\* What the primary archive, and the archive registered under a modid, hold
\* at a path: a Buffer, or Undefined when the read throws or yields null.
Holds(archive, path) ==
    LET r == Read(archive, path)
    IN  IF r.kind = "return" /\ r.val.t = "buffer" THEN r.val ELSE Undefined

\* The places, in the registration history, of the mod jars that hold path.
RegisteredHolders(path) ==
    {i \in 1..Len(regOrder) :
        Holds(Get(_modid_jars, regOrder[i]), path) # Undefined}

\* C1: whenever the primary archive's read of p succeeds with non-null
\* content, getFile(p) returns that content, whatever the registered mod jars
\* hold at p and in whatever order they were registered.
C1_PrimaryWins ==
    (ret.op = "getFile" /\ Holds(jar, ret.arg) # Undefined)
        => ret.out = Return(Holds(jar, ret.arg))

\* C1 happens: the primary holds p, and a registered mod jar holds other
\* content at p.
C1_Witness ==
    /\ ret.op = "getFile"
    /\ Holds(jar, ret.arg) # Undefined
    /\ \E i \in 1..Len(_modid_jars) :
           /\ Holds(_modid_jars[i].v, ret.arg) # Undefined
           /\ Holds(_modid_jars[i].v, ret.arg) # Holds(jar, ret.arg)
    /\ ret.out = Return(Holds(jar, ret.arg))

\* C2: getFile never raises; for a path absent from the primary (its read
\* throws or yields null) and held by exactly one registered mod jar, it
\* returns that jar's content wherever that jar sits among the others, also
\* when the others throw; when no source holds the path it returns null.
C2_SingleAuxiliary ==
    ret.op = "getFile" =>
        /\ ret.out.kind = "return"
        /\ Holds(jar, ret.arg) = Undefined =>
               LET holders == {i \in 1..Len(_modid_jars) :
                                   Holds(_modid_jars[i].v, ret.arg) # Undefined}
               IN  /\ holders = {} => ret.out = Return(Null)
                   /\ \A i \in holders :
                          holders = {i} =>
                              ret.out = Return(Holds(_modid_jars[i].v, ret.arg))

\* C2 happens: the primary's read throws, the only holder is listed second,
\* and the mod jar listed before it throws on the read.
C2_Witness ==
    /\ ret.op = "getFile"
    /\ Read(jar, ret.arg).kind = "throw"
    /\ Len(_modid_jars) = 2
    /\ Read(_modid_jars[1].v, ret.arg).kind = "throw"
    /\ Holds(_modid_jars[2].v, ret.arg) # Undefined
    /\ ret.out = Return(Holds(_modid_jars[2].v, ret.arg))

\* C3: after any sequence of registerModId calls, whatever the keys, a lookup
\* of a path absent from the primary returns the content of the mod jar that
\* was registered first among those that hold the path.
C3_RegistrationOrder ==
    (/\ ret.op = "getFile"
     /\ Holds(jar, ret.arg) = Undefined
     /\ RegisteredHolders(ret.arg) # {})
        => LET first == CHOOSE i \in RegisteredHolders(ret.arg) :
                            \A j \in RegisteredHolders(ret.arg) : i <= j
           IN  ret.out = Return(Holds(Get(_modid_jars, regOrder[first]), ret.arg))

(***************************************************************************)
(* Claims about the parsed-document cache.                                 *)
(***************************************************************************)
\* The document the sources hold at path, parsed: what a lookup that finds
\* nothing remembered has to return.
Stored(path) == parseJson(getFile(path).val)

\* A step that is a call of getParsedJson for a path with no remembered
\* document.
Lookup ==
    /\ ret'.op = "getParsedJson"
    /\ ~Truthy(Get(_cache, ret'.arg))

C4_Step ==
    /\ \A i \in 1..Len(_cache) :
           Truthy(_cache[i].v) => Get(_cache', _cache[i].k) = _cache[i].v
    /\ \A i \in 1..Len(held') : held'[i].cell = NoCell
    /\ (ret'.op = "getParsedJson" /\ Truthy(Get(_cache', ret'.arg)))
           => ret'.out = Return(Get(_cache', ret'.arg))

\* C4: a document remembered for a path never changes, whatever the callers
\* do to the documents they got (delete or overwrite their parent key); every
\* getParsedJson of that path returns a document equal to the remembered one,
\* and no returned document is the cache's own object.
C4_IndependentClones == [][C4_Step]_vars

\* C4 happens: two documents were handed out for the same path, the first was
\* changed by its caller, and the second (the result of the last call) still
\* equals the remembered document.
C4_Witness ==
    /\ ret.op = "getParsedJson"
    /\ Len(held) = 2
    /\ held[1].path = ret.arg
    /\ held[2].path = ret.arg
    /\ Deref(held[1]) # Deref(held[2])
    /\ ret.out = Return(Deref(held[2]))
    /\ ret.out = Return(Get(_cache, ret.arg))

C5_Step ==
    Lookup =>
        /\ ~Truthy(getFile(ret'.arg).val) =>
               /\ ret'.out = Return(Undefined)
               /\ _cache' = _cache
        /\ (Truthy(getFile(ret'.arg).val) /\ Stored(ret'.arg).kind = "return"
                /\ Truthy(Stored(ret'.arg).val)) =>
               /\ ret'.out = Stored(ret'.arg)
               /\ Get(_cache', ret'.arg) = Stored(ret'.arg).val

\* C5: a getParsedJson of a path that no source holds returns undefined and
\* leaves the cache as it is (no entry is made); a getParsedJson of a path
\* with no remembered document reads the sources, so that once a source
\* holding the path is registered the call returns the parsed document.
C5_AbsenceNotCached == [][C5_Step]_vars

\* C5 happens: a lookup of the path found no source holding it, a mod jar
\* holding it was registered later, and the last call returned the document.
C5_Witness ==
    /\ ret.op = "getParsedJson"
    /\ <<ret.arg, "absent">> \in failed
    /\ Holds(jar, ret.arg) = Undefined
    /\ ret.out.kind = "return"
    /\ ret.out.val.t = "obj"
    /\ ret.out = Stored(ret.arg)

C6_Step ==
    (Lookup /\ Truthy(getFile(ret'.arg).val) /\ Stored(ret'.arg).kind = "throw") =>
        /\ ret'.out = Throw(SyntaxError)
        /\ _cache' = _cache
        /\ ~Truthy(Get(_cache', ret'.arg))

\* C6: when the bytes found for a path are no well-formed JSON text,
\* getParsedJson throws the SyntaxError of JSON.parse and leaves the cache as
\* it is, without a document for the path, so that the next call reads the
\* sources again.
C6_MalformedNotCached == [][C6_Step]_vars

\* C6 happens: the last call threw on a text cut short or an empty file, and
\* the cache has no entry for the path.
C6_Witness ==
    /\ ret.op = "getParsedJson"
    /\ getFile(ret.arg).val.t = "buffer"
    /\ getFile(ret.arg).val.v \in {"B1cut", "empty"}
    /\ ret.out = Throw(SyntaxError)
    /\ ~HasOwn(_cache, ret.arg)

\* The retry of C6 happens: a lookup of the path failed on malformed bytes,
\* the mod jar was replaced, and the last call returned the document.
C6_RetryWitness ==
    /\ ret.op = "getParsedJson"
    /\ <<ret.arg, "malformed">> \in failed
    /\ ret.out.kind = "return"
    /\ ret.out.val.t = "obj"

(***************************************************************************)
(* Claims about model resolution.  The documents a resolution has read are *)
(* the ones the cache remembers for the paths of the names on its chain.   *)
(***************************************************************************)
FileOf(name) == Get(_cache, ModelPath(name))

ParentOf(name) == Member(FileOf(name), K("parent"))

GuiOf(name) == Member(Member(FileOf(name), K("display")), K("gui"))

Keys(props) == {props[i].k : i \in 1..Len(props)}

Reverse(seq) == [i \in 1..Len(seq) |-> seq[Len(seq) + 1 - i]]

NotFound(path) == Error("Error", <<"Unable to find model file: ">> \o path)

\* C7: when no source holds the file of the requested model (and no document
\* is remembered for it), getModel throws the error "Unable to find model
\* file: " followed by the path assets/<namespace>/models/<id>.json.
C7_ModelNotFound ==
    (/\ ret.op = "getModel"
     /\ ~Truthy(FileOf(ret.arg))
     /\ ~Truthy(getFile(ModelPath(ret.arg)).val))
        => ret.out = Throw(NotFound(ModelPath(ret.arg)))

\* getModel returned for a chain of three: the requested model names a parent,
\* that parent names a parent, and this last one names none and has display.gui.
C8_Chain ==
    /\ ret.op = "getModel"
    /\ ret.out.kind = "return"
    /\ ParentOf(ret.arg).t = "str"
    /\ ParentOf(ParentOf(ret.arg).v).t = "str"
    /\ ~Truthy(ParentOf(ParentOf(ParentOf(ret.arg).v).v))
    /\ Truthy(GuiOf(ParentOf(ParentOf(ret.arg).v).v))

\* C8, as the program has it: for a chain A -> B -> C the descriptor's parents
\* are [C, B], the farthest ancestor first and the nearest last, and the
\* descriptor has no parent field.
C8_ParentsFarthestFirst ==
    C8_Chain =>
        /\ Get(ret.out.val.v, K("parents"))
               = Arr(<<ParentOf(ParentOf(ret.arg).v), ParentOf(ret.arg)>>)
        /\ ~HasOwn(ret.out.val.v, K("parent"))

\* C8 happens: getModel(A) returned and its parents are [C, B].
C8_Witness ==
    /\ C8_Chain
    /\ ret.arg = NameA
    /\ Get(ret.out.val.v, K("parents")) = Arr(<<Str(NameC), Str(NameB)>>)

\* C8, as stated: for a chain A -> B -> C the descriptor's parents are [B, C],
\* the nearest ancestor first, and the descriptor has no parent field.
C8_ParentsNearestFirst ==
    C8_Chain =>
        /\ Get(ret.out.val.v, K("parents"))
               = Arr(<<ParentOf(ret.arg), ParentOf(ParentOf(ret.arg).v)>>)
        /\ ~HasOwn(ret.out.val.v, K("parent"))

\* The names of the levels of the returned descriptor, the requested one
\* first and then its ancestors from the nearest to the farthest.
Levels ==
    <<ret.arg>> \o
        [i \in 1..Len(Member(ret.out.val, K("parents")).v) |->
            Reverse(Member(ret.out.val, K("parents")).v)[i].v]

\* The fields a level defines itself.
LevelDoc(i) == Without(FileOf(Levels[i]).v, K("parent"))

ValueAt(i, k) == Get(LevelDoc(i), k)

Definers(k) == {i \in 1..Len(Levels) : HasOwn(LevelDoc(i), k)}

Nearest(S) == CHOOSE i \in S : \A j \in S : i <= j

\* The levels whose mappings at k are merged: the definers of k from the
\* nearest on, as far as each of them has a mapping at k.
Merged(k) ==
    {i \in Definers(k) : \A j \in Definers(k) : j <= i => isObject(ValueAt(j, k))}

MergedKeys(k) == UNION {Keys(ValueAt(i, k).v) : i \in Merged(k)}

MergedMember(k, j) ==
    Get(ValueAt(Nearest({i \in Merged(k) : HasOwn(ValueAt(i, k).v, j)}), k).v, j)

\* The field k of the result is what the levels make it (the documents of
\* the model nest mappings one level deep).
FieldMerged(result, k) ==
    IF ~isObject(ValueAt(Nearest(Definers(k)), k))
    THEN Get(result, k) = ValueAt(Nearest(Definers(k)), k)
    ELSE /\ isObject(Get(result, k))
         /\ Keys(Get(result, k).v) = MergedKeys(k)
         /\ \A j \in MergedKeys(k) : Get(Get(result, k).v, j) = MergedMember(k, j)

\* C9: the descriptor getModel returns has the fields of all its levels; a
\* field has the value of the nearest level that defines it when that value is
\* a scalar or an array, and when it is a mapping, the mapping merged key by
\* key with the mappings of the farther levels, the nearer level winning, up
\* to the first farther level that has no mapping there; a field only the
\* farthest level defines is returned as it is; blockName is the requested name.
C9_MergePerKey ==
    (ret.op = "getModel" /\ ret.out.kind = "return") =>
        /\ Keys(ret.out.val.v) \ {K("parents"), K("blockName")}
               = UNION {Keys(LevelDoc(i)) : i \in 1..Len(Levels)}
        /\ \A k \in Keys(ret.out.val.v) \ {K("parents"), K("blockName")} :
               FieldMerged(ret.out.val.v, k)
        /\ Get(ret.out.val.v, K("blockName")) = Str(ret.arg)

\* C9 happens: getModel(A) over three levels returned C's display untouched,
\* textures merged from the three levels, and A's elements and A's name.
C9_Witness ==
    /\ ret.op = "getModel"
    /\ ret.out.kind = "return"
    /\ ret.arg = NameA
    /\ Levels = <<NameA, NameB, NameC>>
    /\ Get(ret.out.val.v, K("display")) = Get(DocC1.v, K("display"))
    /\ Get(ret.out.val.v, K("textures"))
           = Obj(<<Prop(K("particle"), Str(<<"c_particle">>)),
                   Prop(K("side"), Str(<<"b_side">>)),
                   Prop(K("all"), Str(<<"a_all">>))>>)
    /\ Get(ret.out.val.v, K("elements")) = Arr(<<Str(<<"cube_a">>)>>)
    /\ Get(ret.out.val.v, K("blockName")) = Str(NameA)

\* C9 happens also where a scalar takes the place of a mapping: A's textures
\* over B's, and B's display between A's and C's.
C9_ScalarWitness ==
    /\ ret.op = "getModel"
    /\ ret.out.kind = "return"
    /\ Len(Levels) >= 3
    /\ FileOf(Levels[1]) = DocA2
    /\ FileOf(Levels[2]) = DocB2
    /\ Get(ret.out.val.v, K("textures")) = Str(<<"flat">>)
    /\ Get(ret.out.val.v, K("display")) = Get(DocA2.v, K("display"))

\* A resolution returned a descriptor.
Resolved ==
    /\ ret.op \in {"getModel", "getModelFromBlockState"}
    /\ ret.out.kind = "return"
    /\ isObject(ret.out.val)

\* The name of the model the descriptor is of.
Requested == Get(ret.out.val.v, K("blockName")).v

\* C10: a descriptor returned by getModel or getModelFromBlockState for a
\* model whose document has no parent has, when the document has no
\* display.gui, a parents array of at least one element that contains
\* "minecraft:block/block", and when the document has display.gui, no parents.
C10_FallbackParent ==
    (Resolved /\ ~Truthy(ParentOf(Requested))) =>
        IF ~Truthy(GuiOf(Requested))
        THEN /\ Member(ret.out.val, K("parents")).t = "arr"
             /\ Len(Member(ret.out.val, K("parents")).v) >= 1
             /\ Str(RootModel) \in Range(Member(ret.out.val, K("parents")).v)
        ELSE ~HasOwn(ret.out.val.v, K("parents"))

\* C10 happens: getModelFromBlockState returned for a model with no parent
\* and no display.gui, with the root model as its only parent.
C10_Witness ==
    /\ Resolved
    /\ ret.op = "getModelFromBlockState"
    /\ FileOf(Requested) = DocC2
    /\ Member(ret.out.val, K("parents")) = Arr(<<Str(RootModel)>>)

\* C10 happens for getModel too, and for a model with display.gui.
C10_GetModelWitness ==
    /\ Resolved
    /\ ret.op = "getModel"
    /\ FileOf(Requested) = DocC2
    /\ Member(ret.out.val, K("parents")) = Arr(<<Str(RootModel)>>)

C10_GuiWitness ==
    /\ Resolved
    /\ FileOf(Requested) = DocC1
    /\ ~HasOwn(ret.out.val.v, K("parents"))

(***************************************************************************)
(* Claims about blocks and listings.                                       *)
(***************************************************************************)
\* The path of the block state file of an identifier of the default namespace.
StatePath(identifier) ==
    BlockStatesPath(defaultNamespace) \o <<"/">> \o split(identifier, ":")[2]
        \o <<".json">>

\* The variants of a block state document, in the order in which the file
\* found at path lists them.
WrittenVariants(path) == Get(Doc(getFile(path).val.v).v, K("variants")).v

\* The variant the block state document names by default: the one under the
\* empty key, or else the first one listed; of a sequence, its first element.
WrittenDefault(variants) ==
    firstVariant(IF HasOwn(variants, << >>) THEN Get(variants, << >>)
                 ELSE Head(variants).v)

\* getModelOfIdentifier returned a descriptor, resolved from the block state
\* file the sources hold now.
ResolvedFromFile ==
    /\ ret.op = "getModelOfIdentifier"
    /\ ret.out.kind = "return"
    /\ isObject(ret.out.val)
    /\ getFile(StatePath(ret.arg)).val.t = "buffer"
    /\ Return(Get(_cache, StatePath(ret.arg))) = Stored(StatePath(ret.arg))

\* C11: the model getModelFromBlockState resolves for a block state is the
\* one of the variant under the empty key when the document has that key,
\* wherever it stands, and otherwise of the first variant in the document's
\* own key order; of a sequence of variants the first element is taken.
C11_DefaultVariant ==
    ResolvedFromFile =>
        Get(ret.out.val.v, K("blockName"))
            = Get(WrittenDefault(WrittenVariants(StatePath(ret.arg))).v, K("model"))

\* The model file of name, and of every explicit parent after it, is there,
\* and no name comes twice on the way.
RECURSIVE ChainWellFormed(_, _)
ChainWellFormed(name, seen) ==
    /\ name \notin seen
    /\ isObject(FileOf(name))
    /\ ParentOf(name).t = "str" => ChainWellFormed(ParentOf(name).v, seen \cup {name})

\* C18: when every model file of the chain is there, the root model's
\* included, and the explicit parent references form no cycle, getModel(name)
\* settles with a descriptor, whatever the documents hold.
C18_Terminates ==
    (/\ ret.op = "getModel"
     /\ ChainWellFormed(ret.arg, {})
     /\ ChainWellFormed(RootModel, {}))
        => ret.out.kind = "return"

\* The block states of the namespace of the last call, and what the
\* resolution of one of them on its own comes to.
StatesOfCall == getBlockStates(ret.arg, _cache).out.val.v

Alone(state) == getModelFromBlockState(state, _cache).out

Broken(state) == Alone(state).kind = "throw" \/ ~Truthy(Alone(state).val)

DescriptorsOf(valid) == [i \in 1..Len(valid) |-> Alone(valid[i]).val]

RegisteredListers(path) ==
    {i \in 1..Len(regOrder) :
        hasLength(Entries(Get(_modid_jars, regOrder[i]), path))}

\* The listing of path by the first registered of the mod jars that have one.
FirstRegisteredListing(listers, path) ==
    Entries(Get(_modid_jars,
                regOrder[CHOOSE i \in listers : \A j \in listers : i <= j]),
            path)

\* C17: getFileEntries(prefix) returns the primary's listing when it is not
\* empty; otherwise the listing of the first registered, in registration
\* order, of the mod jars whose listing is not empty; otherwise the empty
\* sequence. It never raises and never merges listings.
C17_ListingFallback ==
    ret.op = "getFileEntries" =>
        ret.out = IF hasLength(Entries(jar, ret.arg)) THEN Entries(jar, ret.arg)
                  ELSE IF RegisteredListers(ret.arg) = {} THEN Return(Arr(<< >>))
                  ELSE FirstRegisteredListing(RegisteredListers(ret.arg), ret.arg)

(***************************************************************************)
(* Claims about textures and identifiers.                                  *)
(***************************************************************************)
\* The last call was op and asked for a texture no source holds.
MissingTexture(op) ==
    /\ ret.op = op
    /\ getFile(TexturePath(ret.arg)).val.t # "buffer"

\* C12: getTextureFile of a texture that exists in no source, neither the
\* primary archive nor a registered mod jar, raises the error that names the
\* attempted path assets/<ns>/textures/<id>.png; it never returns an absent
\* value.
C12_TextureNotFound ==
    MissingTexture("getTextureFile") =>
        ret.out = Throw(TextureNotFound(TexturePath(ret.arg)))

\* The sidecar of a texture: the texture's path with .mcmeta appended.
SidecarPath(name) == TexturePath(name) \o <<".mcmeta">>

\* No source holds the sidecar of name, or its content fails to parse.
NoMetadata(name) ==
    \/ getFile(SidecarPath(name)).val.t # "buffer"
    \/ Stored(SidecarPath(name)).kind = "throw"

C13_Step ==
    ret'.op = "getTextureMetadata" =>
        /\ ret'.out.kind = "return"
        /\ (NoMetadata(ret'.arg) /\ ~Truthy(Get(_cache, MetadataPath(ret'.arg))))
               => ret'.out.val \in {Null, Undefined}

\* C13: getTextureMetadata never raises; when no source holds the texture's
\* .mcmeta sidecar, or the sidecar's content fails to parse, and no document
\* is remembered for the lookup, it returns null or undefined.
C13_MetadataNeverRaises == [][C13_Step]_vars

\* A sidecar that fails to parse was asked for, and null came back.
C13_Witness ==
    /\ ret.op = "getTextureMetadata"
    /\ getFile(SidecarPath(ret.arg)).val.t = "buffer"
    /\ Stored(SidecarPath(ret.arg)).kind = "throw"
    /\ MetadataPath(ret.arg) = SidecarPath(ret.arg)
    /\ ret.out = Return(Null)

\* C16: for a name without a namespace prefix, id(name) yields the default
\* namespace the instance was opened with and the name as local id, so that
\* getTextureFile returns the texture the sources hold under that namespace.
C16_DefaultNamespace ==
    (ret.op = "getTextureFile" /\ ~includes(ret.arg, ":")) =>
        /\ id(ret.arg) = [namespace |-> defaultNamespace, id |-> ret.arg]
        /\ ret.out
               = getFile(<<"assets", "/">> \o defaultNamespace
                             \o <<"/", "textures", "/">> \o ret.arg \o <<".png">>)

\* C20: for every texture name, with or without a namespace prefix, the path
\* getTextureMetadata(name) looks at is the path getTextureFile(name) looks
\* at with .mcmeta appended, so that a sidecar document the sources hold
\* there is found.
C20_SidecarPath ==
    ret.op = "getTextureMetadata" =>
        /\ MetadataPath(ret.arg) = SidecarPath(ret.arg)
        /\ ~NoMetadata(ret.arg) => Truthy(ret.out.val)

(***************************************************************************)
(* Claims about the render generator.                                      *)
(***************************************************************************)
Rendered(event) == event \in {"render", "fail"}

\* C15: in every run of the render generator the renderer is prepared before
\* the first render call; nothing is rendered after a render call failed or
\* after the teardown; a run that prepared the renderer and is over ended
\* with the teardown, which left the stored renderer null; and a failed
\* render call reached the caller.
C15_ScopedRenderer ==
    /\ \A k \in 1..Len(gen.log) :
           /\ Rendered(gen.log[k]) => \E j \in 1..(k - 1) : gen.log[j] = "prepare"
           /\ gen.log[k] = "fail" => \A j \in (k + 1)..Len(gen.log) : gen.log[j] = "destroy"
           /\ gen.log[k] = "destroy" => k = Len(gen.log)
    /\ (gen.pc = "closed" /\ gen.log # << >>)
           => /\ gen.log[Len(gen.log)] = "destroy"
              /\ renderer = Null
              /\ "fail" \in Range(gen.log) => ret.out = Throw(RenderError)

\* A run over two blocks whose second render call failed is over: the
\* renderer was prepared, torn down after the failure, and is null.
C15_Witness ==
    /\ gen.pc = "closed"
    /\ Len(gen.blocks) = 2
    /\ gen.log = <<"prepare", "render", "fail", "destroy">>
    /\ renderer = Null
    /\ ret.out = Throw(RenderError)

\* A run whose renders all succeeded is over.
C15_SuccessWitness ==
    /\ gen.pc = "closed"
    /\ gen.log = <<"prepare", "render", "render", "destroy">>
    /\ renderer = Null
    /\ ret.out.kind = "return"

(***************************************************************************)
(* Claims about concurrent lookups.                                        *)
(***************************************************************************)
\* What a call for path is to settle with: the parse of what the sources
\* hold at path, nothing when they hold nothing or the parse is no document,
\* the parse's failure when it fails.
ParseOfContent(path) ==
    IF getFile(path).val.t # "buffer" THEN Return(Undefined)
    ELSE IF Stored(path).kind = "return" /\ ~Truthy(Stored(path).val)
         THEN Return(Undefined)
    ELSE Stored(path)

\* C19: for every interleaving of calls of getParsedJson at their suspension
\* points, the sources being unchanged, each settled call returned a document
\* equal to the parse of the content of its path, an object of its own, and
\* the cache entry of the path equals that parse.
C19_ConcurrentMisses ==
    \A t \in 1..MaxTasks :
        tasks[t].pc = "done" =>
            /\ tasks[t].res.out = ParseOfContent(tasks[t].path)
            /\ tasks[t].res.cell = NoCell
            /\ isObject(tasks[t].res.out.val)
                   => Return(Get(_cache, tasks[t].path)) = Stored(tasks[t].path)

\* Two calls for the same path both found nothing remembered, were suspended
\* together and both returned the document.
C19_Witness ==
    /\ \A t \in 1..2 : tasks[t].pc = "done" /\ tasks[t].missed
    /\ tasks[1].path = tasks[2].path
    /\ isObject(tasks[1].res.out.val)
    /\ tasks[2].res.out = tasks[1].res.out
====
